---- MODULE Spec2Model ----
(***************************************************************************)
(* Human-in-the-loop interrupt/resume protocol, response extraction and    *)
(* streaming adapter of the e-commerce assistant.                          *)
(*                                                                         *)
(* Python strings are modelled as sequences of lexical tokens, so that     *)
(* strip(), lower(), startswith() and `in` are computed rather than        *)
(* assumed.  Python dicts are modelled as TLA+ functions (records), with   *)
(* d.get(k, default) computed from DOMAIN d.                               *)
(***************************************************************************)
EXTENDS Integers, Sequences, FiniteSets, TLC

VARIABLES
    messages,   \* the message list handed to extract_final_response
    result,     \* what extract_final_response did with it
    calls,      \* how many times extract_final_response was applied to the list
    container,  \* an interrupt container: the list under "__interrupt__"
    irec,       \* what an interrupt extraction made of the container
    rt,         \* the runtime's checkpoint of every session (thread_id)
    req,        \* the HTTP request being served, or the last one served
    ctl,        \* the Chainlit controller: its activations of main and prompts
    call,       \* a call of the remote command client, alone or by a tool wrapper
    order,      \* a call of create_order_for_customer and the requests it sent
    paging      \* a call of low_stock_alert and the pages it fetched

xvars == <<messages, result, calls>>
ivars == <<container, irec>>
pvars == <<rt, req>>
cvars == <<ctl>>
ovars == <<order, paging>>
tvars == <<call, order, paging>>
vars == <<messages, result, calls, container, irec, rt, req, ctl, call, order, paging>>

(***************************************************************************)
(* Bounds                                                                  *)
(***************************************************************************)
MaxMsgs == 3
MaxEvents == 2
MaxTextLen == 4
MaxDepth == 2
MaxCalls == 2
MaxItems == 2
MaxPages == 3
MaxPageItems == 2
MaxTotal == 3

(***************************************************************************)
(* Strings as token sequences                                              *)
(***************************************************************************)
SP == " "

\* str.lower() on one token
LowerTok(t) ==
    CASE t = "Transferred" -> "transferred"
      [] t = "Transferring" -> "transferring"
      [] t = "I have successfully" -> "i have successfully"
      [] t = "If you have any further" -> "if you have any further"
      [] t = "Successfully" -> "successfully"
      [] t = "Done" -> "done"
      [] OTHER -> t

\* str.lower()
Lower(s) == [i \in 1..Len(s) |-> LowerTok(s[i])]

RECURSIVE LStrip(_)
LStrip(s) == IF s # <<>> /\ Head(s) = SP THEN LStrip(Tail(s)) ELSE s

RECURSIVE RStrip(_)
RStrip(s) == IF s # <<>> /\ s[Len(s)] = SP THEN RStrip(SubSeq(s, 1, Len(s) - 1)) ELSE s

\* str.strip()
Strip(s) == RStrip(LStrip(s))

\* str.startswith(prefix)
StartsWith(s, prefix) ==
    /\ Len(prefix) <= Len(s)
    /\ SubSeq(s, 1, Len(prefix)) = prefix

\* `sub in s`
Contains(s, sub) ==
    \E i \in 1..(Len(s) - Len(sub) + 1) : SubSeq(s, i, i + Len(sub) - 1) = sub

\* re.match(r".*_agent$", name): `.` does not match a newline, `$` matches at
\* the end or just before a final newline.
ReMatchAgent(name) ==
    \E i \in 1..Len(name) :
        /\ name[i] = "_agent"
        /\ \A j \in 1..(i - 1) : name[j] # "\n"
        /\ \/ i = Len(name)
           \/ i = Len(name) - 1 /\ name[Len(name)] = "\n"

\* "the name ends with _agent", as the claims word it
EndsWithAgent(name) == name # <<>> /\ name[Len(name)] = "_agent"

(***************************************************************************)
(* Turn messages                                                           *)
(***************************************************************************)
\* msg.name is Optional[str]: None, or a string
NoName == [isNone |-> TRUE, text |-> <<>>]
Name(text) == [isNone |-> FALSE, text |-> text]

Msg(role, name, content, tool_calls) ==
    [role |-> role, name |-> name, content |-> content, tool_calls |-> tool_calls]

IsAI(m) == m.role = "ai"

(***************************************************************************)
(* extract_final_response                                                  *)
(***************************************************************************)
Returned(text) == [raised |-> FALSE, text |-> text]
Raised == [raised |-> TRUE, text |-> <<>>]
NotFound == [raised |-> FALSE, text |-> <<"<not found>">>]
FallbackText_Empty == <<>>

FallbackText == <<"No meaningful response found.">>

is_meaningful(msg) ==
    IF ~IsAI(msg) \/ msg.content = <<>> THEN FALSE
    ELSE LET content == Lower(Strip(msg.content)) IN
        /\ ~msg.tool_calls
        /\ ~Contains(content, <<"transferred">>)
        /\ ~StartsWith(content, <<"transferring">>)
        /\ ~StartsWith(content, <<"if you have any further">>)
        /\ ~StartsWith(content, <<"i have successfully">>)

\* first loop: for msg in reversed(messages), scanning from index i down
RECURSIVE Tier1Scan(_, _)
Tier1Scan(msgs, i) ==
    IF i = 0 THEN NotFound
    ELSE LET msg == msgs[i] IN
        IF ~IsAI(msg) THEN Tier1Scan(msgs, i - 1)
        ELSE IF msg.name.isNone THEN Raised   \* re.match(pattern, None): TypeError
        ELSE IF ReMatchAgent(msg.name.text) /\ is_meaningful(msg)
             THEN Returned(Strip(msg.content))
        ELSE Tier1Scan(msgs, i - 1)

\* second loop
RECURSIVE Tier2Scan(_, _)
Tier2Scan(msgs, i) ==
    IF i = 0 THEN NotFound
    ELSE IF is_meaningful(msgs[i]) THEN Returned(Strip(msgs[i].content))
    ELSE Tier2Scan(msgs, i - 1)

\* third loop
RECURSIVE Tier3Scan(_, _)
Tier3Scan(msgs, i) ==
    IF i = 0 THEN NotFound
    ELSE IF IsAI(msgs[i]) /\ msgs[i].content # <<>> THEN Returned(Strip(msgs[i].content))
    ELSE Tier3Scan(msgs, i - 1)

extract_final_response(msgs) ==
    LET t1 == Tier1Scan(msgs, Len(msgs)) IN
    IF t1 # NotFound THEN t1
    ELSE LET t2 == Tier2Scan(msgs, Len(msgs)) IN
    IF t2 # NotFound THEN t2
    ELSE LET t3 == Tier3Scan(msgs, Len(msgs)) IN
    IF t3 # NotFound THEN t3
    ELSE Returned(FallbackText)

NoResult == [raised |-> FALSE, text |-> <<"<pending>">>]

(***************************************************************************)
(* Message lists the extraction is applied to                              *)
(***************************************************************************)
AgentName == Name(<<"product", "_agent">>)
SupervisorName == Name(<<"top_level_supervisor">>)

MsgPool ==
    { Msg("ai", n, c, FALSE) :
        n \in {AgentName, SupervisorName, NoName},
        c \in { <<"Done">>, <<SP, "Listed", SP>>, <<"Transferring", SP, "back to">>, <<>> } }
    \cup { Msg("ai", AgentName, <<"Done">>, TRUE),
           Msg("ai", SupervisorName, <<"I have successfully">>, FALSE),
           Msg("ai", SupervisorName, <<"Successfully", SP, "Transferred">>, FALSE),
           Msg("ai", AgentName, <<SP, "Transferring", SP>>, FALSE),
           Msg("system", NoName, <<"Documentation Context">>, FALSE),
           Msg("human", NoName, <<"Hello">>, FALSE),
           Msg("tool", Name(<<"delete_product">>), <<"deleted">>, FALSE) }

(***************************************************************************)
(* Interrupt containers and their extraction                               *)
(***************************************************************************)
\* Python dicts: functions from keys; d.get(k, default)
EmptyDict == [k \in {} |-> k]
DictGet(d, k, default) == IF k \in DOMAIN d THEN d[k] ELSE default

\* JSON values carried in dicts: a string, a number or a mapping
JStr(x) == [t |-> "str", s |-> x, d |-> EmptyDict]
JNum(x) == [t |-> "num", s |-> x, d |-> EmptyDict]
JDict(m) == [t |-> "dict", s |-> "", d |-> m]

\* Interrupt.value: None, a list of payloads, or something that is no list
PyNone == [kind |-> "none", items |-> <<>>]
PyList(items) == [kind |-> "list", items |-> items]
PyOther == [kind |-> "dict", items |-> <<>>]
Interrupt(value) == [value |-> value]

\* str(interrupt.value), the "response" field of the payload
PyStr(value) == [str |-> value.kind, of |-> value.items]

\* what an extraction produced: the Interrupt Record, or an exception
Record(action, args, description) ==
    [raised |-> FALSE, action |-> action, args |-> args, description |-> description]
RecordRaised ==
    [raised |-> TRUE, action |-> "", args |-> EmptyDict, description |-> ""]

\* routes.py, /chat and /chat/stream: value = interrupt.value[0] and the reads
\* that follow it
RoutesRecord(cont) ==
    IF cont = <<>> THEN RecordRaised                        \* [0] of an empty list
    ELSE LET interrupt == cont[1] IN
        IF interrupt.value.kind # "list" \/ interrupt.value.items = <<>>
        THEN RecordRaised                                   \* value[0] raises
        ELSE LET value == interrupt.value.items[1]
                 action_request == DictGet(value, "action_request", EmptyDict)
             IN Record(DictGet(action_request, "action", "unknown"),
                       DictGet(action_request, "args", EmptyDict),
                       DictGet(value, "description", ""))

\* app.py extract_interrupt_message
extract_interrupt_message(cont) ==
    IF cont = <<>> THEN RecordRaised
    ELSE LET interrupt == cont[1]
             value == IF interrupt.value.kind = "list" /\ Len(interrupt.value.items) > 0
                      THEN interrupt.value.items[1]
                      ELSE EmptyDict
             action_request == DictGet(value, "action_request", EmptyDict)
         IN Record(DictGet(action_request, "action", "unknown"),
                   DictGet(action_request, "args", EmptyDict),
                   DictGet(value, "description", "Action required"))

\* the JSON body both HTTP endpoints build from the record
InterruptPayload(cont) ==
    LET r == RoutesRecord(cont) IN
    [response |-> PyStr(cont[1].value),
     interruption |-> [type |-> r.action, message |-> r.description, args |-> r.args]]

ActionRequests ==
    { EmptyDict,
      [action |-> "delete_product"],
      [args |-> [sku |-> JStr("X")]],
      [action |-> "delete_product", args |-> [sku |-> JStr("X")]],
      [action |-> "delete_category", args |-> [category_id |-> JNum("7")]] }

Payloads ==
    { [action_request |-> ar] : ar \in ActionRequests }
    \cup { [action_request |-> ar, description |-> "Confirm deletion"] : ar \in ActionRequests }
    \cup { EmptyDict, [description |-> "Confirm deletion"] }

OtherPayload == [action_request |-> [action |-> "update_product", args |-> [sku |-> JStr("Y")]],
                 description |-> "Confirm update"]

Values ==
    {PyNone, PyOther, PyList(<<>>)}
    \cup { PyList(<<p>>) : p \in Payloads }
    \cup { PyList(<<p, OtherPayload>>) : p \in Payloads }

Containers ==
    { <<Interrupt(v)>> : v \in Values }
    \cup { <<Interrupt(v), Interrupt(PyList(<<OtherPayload>>))>> : v \in Values }

NoRecord == [where |-> "none", record |-> RecordRaised]

(***************************************************************************)
(* The agent-graph runtime, as the handlers see it: a checkpoint per       *)
(* thread_id, an invoke/stream entry point, events                         *)
(***************************************************************************)
Sessions == {"s1", "s2"}

\* the checkpoint of a thread: running, or paused on one interrupt container
RtRunning == [paused |-> FALSE, pending |-> <<>>]
RtPaused(cont) == [paused |-> TRUE, pending |-> cont]

\* the category agent's tool list: tool name -> wrapped by add_human_in_the_loop
tools_Unwrapped ==
    [list_all_categories |-> FALSE, delete_category |-> FALSE, delete_category_by_name |-> TRUE]

tools ==
    [list_all_categories |-> FALSE, delete_category |-> TRUE, delete_category_by_name |-> TRUE]

\* delete_product_with_hitl = add_human_in_the_loop(delete_product)
delete_product_with_hitl == [delete_product |-> TRUE]

\* whether a call of tool t goes through the human-in-the-loop wrapper
IsWrapped(t) ==
    IF t \in DOMAIN tools THEN tools[t]
    ELSE t \in DOMAIN delete_product_with_hitl /\ delete_product_with_hitl[t]

\* the tool calls an agent turn makes in the model, with their arguments
ToolCalls == {"list_all_categories", "delete_category"}

ToolInput(t) ==
    CASE t = "delete_category" -> [category_id |-> JNum("7")]
      [] t = "delete_product" -> [sku |-> JStr("X")]
      [] OTHER -> EmptyDict

\* the remote request a tool sends: magento_client.send_request(endpoint, method)
RemoteRequest(t, input) == [tool |-> t, input |-> input]

\* add_human_in_the_loop: the request the wrapper hands to interrupt()
HitlRequest(t) ==
    [action_request |-> [action |-> t, args |-> ToolInput(t)],
     description |-> "Please review the tool call"]

HitlContainer(t) == <<Interrupt(PyList(<<HitlRequest(t)>>))>>

\* the tool a paused checkpoint is waiting to run
PendingTool(cont) == cont[1].value.items[1].action_request.action

\* what stands as the result of the paused tool call
NoToolResult == [by |-> "nobody", text |-> JStr("")]
ToolResult(t) == [by |-> "tool", text |-> JStr(t)]
OperatorResult(text) == [by |-> "operator", text |-> text]

Outcome(raised, sent, toolResult) ==
    [raised |-> raised, sent |-> sent, toolResult |-> toolResult]

\* add_human_in_the_loop after interrupt() returned the decision: run the tool
\* (accept), run it with the edited arguments (edit), or answer in its place
\* (response); anything else raises
HitlResume(t, decision) ==
    IF "type" \notin DOMAIN decision THEN Outcome(TRUE, <<>>, NoToolResult)
    ELSE CASE decision.type = "accept" ->
                Outcome(FALSE, <<RemoteRequest(t, ToolInput(t))>>, ToolResult(t))
           [] decision.type = "edit" ->
                IF /\ "args" \in DOMAIN decision
                   /\ decision.args.t = "dict"
                   /\ "args" \in DOMAIN decision.args.d
                   /\ decision.args.d.args.t = "dict"
                THEN Outcome(FALSE, <<RemoteRequest(t, decision.args.d.args.d)>>, ToolResult(t))
                ELSE Outcome(TRUE, <<>>, NoToolResult)
           [] decision.type = "response" ->
                IF "args" \in DOMAIN decision
                THEN Outcome(FALSE, <<>>, OperatorResult(decision.args))
                ELSE Outcome(TRUE, <<>>, NoToolResult)
           [] OTHER -> Outcome(TRUE, <<>>, NoToolResult)

\* the runtime entered with Command(resume=[decision]) on a thread
RuntimeResume(checkpoint, decision) ==
    IF checkpoint.paused
    THEN HitlResume(PendingTool(checkpoint.pending), decision)
    ELSE Outcome(FALSE, <<>>, NoToolResult)      \* nothing is waiting for a decision

\* the checkpoint after the runtime was entered with that command
CheckpointAfterResume(checkpoint, decision) ==
    IF checkpoint.paused /\ ~RuntimeResume(checkpoint, decision).raised
    THEN RtRunning
    ELSE checkpoint

\* Resume decisions as the operator-facing layer sends them
DAccept == [type |-> "accept"]
DEdit(m) == [type |-> "edit", args |-> JDict([args |-> m])]
DResponse(text) == [type |-> "response", args |-> JStr(text)]

EditedInput == [sku |-> JStr("Y")]

Decisions ==
    { DAccept, DEdit(JDict(EditedInput)), DResponse("keep it"),
      [type |-> "ignore"], [type |-> "edit"], EmptyDict }

(***************************************************************************)
(* Events of a run                                                         *)
(***************************************************************************)
NoMsg == Msg("none", NoName, <<>>, FALSE)

\* a chunk of stream mode "messages": the tuple (message, metadata)
MessageEvent(m) == [type |-> "message", msg |-> m, tool |-> ""]
\* a chunk of stream mode "updates": a dict of node updates
UpdateEvent == [type |-> "update", msg |-> NoMsg, tool |-> ""]
\* an agent turn calling tool t
ToolCallEvent(t) == [type |-> "toolcall", msg |-> NoMsg, tool |-> t]
\* the iterator ends, or raises
EndEvent == [type |-> "end", msg |-> NoMsg, tool |-> ""]
RaiseEvent == [type |-> "raise", msg |-> NoMsg, tool |-> ""]

StreamMsgs ==
    { Msg("ai", AgentName, <<"Done", SP>>, FALSE),
      Msg("ai", AgentName, <<"Transferring", SP, "back to">>, FALSE),
      Msg("ai", AgentName, <<>>, TRUE),
      Msg("ai", AgentName, <<"Done">>, TRUE),
      Msg("tool", Name(<<"delete_product">>), <<"deleted">>, FALSE),
      Msg("ai", SupervisorName, <<"Done">>, FALSE),
      Msg("ai", NoName, <<"Done">>, FALSE) }

\* a tool call shows in the stream as an interrupt container when the tool is
\* wrapped, and as an ordinary update otherwise
IsInterruptEvent(e) == e.type = "toolcall" /\ IsWrapped(e.tool)

HasInterrupt(events) == \E i \in 1..Len(events) : IsInterruptEvent(events[i])

\* what the runtime may emit next, given what it emitted so far: once it has
\* emitted an interrupt no tool is called any more in that run
NextEvents(seen) ==
    { MessageEvent(m) : m \in StreamMsgs } \cup {UpdateEvent, EndEvent, RaiseEvent}
    \cup (IF HasInterrupt(seen) THEN {} ELSE { ToolCallEvent(t) : t \in ToolCalls })

\* the remote requests a run sends while emitting an event
SentBy(e) ==
    IF e.type = "toolcall" /\ ~IsWrapped(e.tool)
    THEN <<RemoteRequest(e.tool, ToolInput(e.tool))>>
    ELSE <<>>

\* the checkpoint after the runtime emitted event e
CheckpointAfterEvent(checkpoint, e) ==
    IF IsInterruptEvent(e) THEN RtPaused(HitlContainer(e.tool)) ELSE checkpoint

(***************************************************************************)
(* HTTP endpoints of routes.py                                             *)
(***************************************************************************)
NoInput == [kind |-> "none", decision |-> EmptyDict]
\* run_workflow(request.message, "", session_id): {"messages": [..., user]}
MessageInput == [kind |-> "message", decision |-> EmptyDict]
\* Command(resume=[action])
ResumeInput(action) == [kind |-> "resume", decision |-> action]

NoPayload ==
    [response |-> PyStr(PyNone),
     interruption |-> [type |-> "", message |-> "", args |-> EmptyDict]]

\* what a response carries: an answer, an interrupt payload or an error
\* string; exc tells whether the text of the exception is part of it
TextFrag(text) == [kind |-> "text", text |-> text, payload |-> NoPayload, exc |-> FALSE]
InterruptFrag(cont) ==
    [kind |-> "interrupt", text |-> <<>>, payload |-> InterruptPayload(cont), exc |-> FALSE]
ErrorFrag(text, exc) == [kind |-> "error", text |-> <<text>>, payload |-> NoPayload, exc |-> exc]

IdleReq ==
    [endpoint |-> "none", sid |-> "", input |-> NoInput, pc |-> "idle",
     invoked |-> FALSE, thread |-> "", wasPaused |-> FALSE,
     seen |-> <<>>, sent |-> <<>>, toolResult |-> NoToolResult,
     out |-> <<>>, status |-> 0, escaped |-> FALSE]

thread_id_Fixed(session_id) == "s1"

\* a thread id that lands on another session's checkpoint
thread_id_Other(session_id) == IF session_id = "s1" THEN "s2" ELSE "s1"

\* config={"configurable": {"thread_id": session_id}}
thread_id(session_id) == session_id

\* the input run_workflow / run_workflow_stream hand to the supervisor: the
\* command alone when resuming, else the messages built from the user input
RunInput(command, came_from_resume) ==
    IF came_from_resume THEN ResumeInput(command) ELSE MessageInput

\* a request that entered the runtime for its session
Entered(endpoint, sid, input, checkpoint) ==
    [IdleReq EXCEPT !.endpoint = endpoint, !.sid = sid, !.input = input,
                    !.invoked = TRUE, !.thread = thread_id(sid), !.wasPaused = checkpoint.paused,
                    !.status = 200]

\* a request answered without entering the runtime
Rejected(endpoint, sid, input, status, frag) ==
    [IdleReq EXCEPT !.endpoint = endpoint, !.sid = sid, !.input = input,
                    !.pc = "done", !.status = status, !.out = <<frag>>]

RECURSIVE ResultMessages(_)
\* result["messages"]: the messages of the run, in order
ResultMessages(events) ==
    IF events = <<>> THEN <<>>
    ELSE IF Head(events).type = "message"
         THEN <<Head(events).msg>> \o ResultMessages(Tail(events))
         ELSE ResultMessages(Tail(events))

RECURSIVE ResultInterrupt(_)
\* result["__interrupt__"]: the container of the run's interrupt, if any
ResultInterrupt(events) ==
    IF events = <<>> THEN <<>>
    ELSE IF IsInterruptEvent(Head(events)) THEN HitlContainer(Head(events).tool)
    ELSE ResultInterrupt(Tail(events))

RECURSIVE SentByAll(_)
SentByAll(events) ==
    IF events = <<>> THEN <<>> ELSE SentBy(Head(events)) \o SentByAll(Tail(events))

RECURSIVE CheckpointAfterRun(_, _)
CheckpointAfterRun(checkpoint, events) ==
    IF events = <<>> THEN checkpoint
    ELSE CheckpointAfterRun(CheckpointAfterEvent(checkpoint, Head(events)), Tail(events))

RunRaises(events) == events # <<>> /\ events[Len(events)].type = "raise"

\* the runs supervisor.invoke makes in the model: invoke returns at the first
\* interrupt, at the end of the run, or raises
InvokeRuns ==
    { <<MessageEvent(Msg("ai", AgentName, <<"Done">>, FALSE))>>,
      <<MessageEvent(Msg("ai", NoName, <<"Done">>, FALSE))>>,
      <<ToolCallEvent("list_all_categories"), MessageEvent(Msg("ai", AgentName, <<SP, "Listed", SP>>, FALSE))>>,
      <<MessageEvent(Msg("ai", AgentName, <<>>, TRUE)), ToolCallEvent("delete_category")>>,
      <<MessageEvent(Msg("ai", AgentName, <<"Done">>, FALSE)), ToolCallEvent("delete_product")>>,
      <<RaiseEvent>> }

ApologyChat == "I apologize, but I'm experiencing technical difficulties. Please try again."
ApologyResume == "Unable to resume the agent due to an internal error."
ApologyStream == "Internal server error occurred during streaming."
StreamError == "[Error] Something went wrong during streaming."
StreamResumeError == "[Error] Something went wrong during streaming-resume."

\* chat_with_agent after run_workflow returned `run` (or raised)
ChatAnswer(r, run) ==
    LET cont == ResultInterrupt(run)
        failed == [r EXCEPT !.pc = "done", !.status = 500,
                            !.out = <<ErrorFrag(ApologyChat, TRUE)>>]
    IN  IF RunRaises(run) THEN failed
        ELSE IF cont # <<>>                       \* "__interrupt__" in result
        THEN IF RoutesRecord(cont).raised THEN failed
             ELSE [r EXCEPT !.pc = "done", !.out = <<InterruptFrag(cont)>>]
        ELSE LET text == extract_final_response(ResultMessages(run)) IN
             IF text.raised THEN failed
             ELSE [r EXCEPT !.pc = "done", !.out = <<TextFrag(text.text)>>]

\* resume_agent after run_workflow returned `run` (or raised): the result is
\* never looked up for "__interrupt__"
ResumeBakAnswer(r, run) ==
    LET failed == [r EXCEPT !.pc = "done", !.status = 500,
                            !.out = <<ErrorFrag(ApologyResume, TRUE)>>]
    IN  IF RunRaises(run) THEN failed
        ELSE LET text == extract_final_response(ResultMessages(run)) IN
             IF text.raised THEN failed
             ELSE [r EXCEPT !.pc = "done", !.out = <<TextFrag(text.text)>>]

\* is_meaningful_response(content), routes.py 168-177
is_meaningful_response(content) ==
    LET lower == Lower(content) IN
        /\ ~Contains(lower, <<"transferring">>)
        /\ ~Contains(lower, <<"transferred">>)
        /\ ~StartsWith(lower, <<"transferring", SP, "back to">>)
        /\ ~StartsWith(lower, <<"successfully", SP, "transferred">>)
        /\ ~StartsWith(content, <<"i have successfully">>)
        /\ ~StartsWith(content, <<"if you have any further">>)

\* the AIMessage branch of both streaming loops: "skip", "yield" or "raise"
StreamMessageVerdict(message) ==
    IF ~IsAI(message) THEN "skip"
    ELSE IF Strip(message.content) = <<>> THEN "skip"
    ELSE IF ~is_meaningful_response(message.content) THEN "skip"
    ELSE IF message.name.isNone THEN "raise"        \* re.match(pattern, None)
    ELSE IF ReMatchAgent(message.name.text) THEN "yield"
    ELSE "skip"

\* chat_with_agent_stream.stream_response on an interrupt chunk, kept reading
ChatStreamOnInterrupt_NoReturn(r, cont) ==
    IF RoutesRecord(cont).raised
    THEN [r EXCEPT !.pc = "done", !.out = Append(@, ErrorFrag(StreamError, FALSE))]
    ELSE [r EXCEPT !.out = Append(@, InterruptFrag(cont))]

\* chat_with_agent_stream.stream_response on an interrupt chunk: yield the
\* payload and return
ChatStreamOnInterrupt(r, cont) ==
    IF RoutesRecord(cont).raised
    THEN [r EXCEPT !.pc = "done", !.out = Append(@, ErrorFrag(StreamError, FALSE))]
    ELSE [r EXCEPT !.pc = "done", !.out = Append(@, InterruptFrag(cont))]

\* one turn of `async for chunk in result_stream` in chat_with_agent_stream;
\* the whole loop sits in one try
ChatStreamOnChunk(r, e) ==
    LET read == [r EXCEPT !.seen = Append(@, e)] IN
    CASE e.type = "end" -> [r EXCEPT !.pc = "done"]
      [] e.type = "raise" ->
            [r EXCEPT !.pc = "done", !.out = Append(@, ErrorFrag(StreamError, FALSE))]
      [] IsInterruptEvent(e) -> ChatStreamOnInterrupt(read, HitlContainer(e.tool))
      [] e.type = "message" ->
            LET verdict == StreamMessageVerdict(e.msg) IN
            IF verdict = "yield" THEN [read EXCEPT !.out = Append(@, TextFrag(e.msg.content))]
            ELSE IF verdict = "raise"
            THEN [read EXCEPT !.pc = "done", !.out = Append(@, ErrorFrag(StreamError, FALSE))]
            ELSE read
      [] OTHER -> read

\* one turn of `async for chunk in result_stream` in resume_agent_stream: the
\* try is inside the loop, the iteration itself is outside every try, and an
\* interrupt chunk is no AIMessage
ResumeStreamOnChunk(r, e) ==
    LET read == [r EXCEPT !.seen = Append(@, e)] IN
    CASE e.type = "end" -> [r EXCEPT !.pc = "done"]
      [] e.type = "raise" -> [r EXCEPT !.pc = "done", !.escaped = TRUE]
      [] e.type = "message" ->
            LET verdict == StreamMessageVerdict(e.msg) IN
            IF verdict = "yield" THEN [read EXCEPT !.out = Append(@, TextFrag(e.msg.content))]
            ELSE IF verdict = "raise"
            THEN [read EXCEPT !.out = Append(@, ErrorFrag(StreamResumeError, FALSE))]
            ELSE read
      [] OTHER -> read

(***************************************************************************)
(* json.loads on the operator's text, a sequence of JSON tokens            *)
(***************************************************************************)
KeyToks == {"\"qty\":"}
StrToks == {"\"X\""}
NumToks == {"5"}
JsonToks == {"{", "}", ","} \cup KeyToks \cup StrToks \cup NumToks

KeyOf(tok) == CASE tok = "\"qty\":" -> "qty" [] OTHER -> tok
StrOf(tok) == CASE tok = "\"X\"" -> "X" [] OTHER -> tok

ParseFail == [ok |-> FALSE, value |-> JStr(""), rest |-> <<>>]
ParseOk(value, rest) == [ok |-> TRUE, value |-> value, rest |-> rest]

\* d[key] = value on a dict: a repeated key keeps the last value
DictPut(d, key, value) ==
    [k \in DOMAIN d \cup {key} |-> IF k = key THEN value ELSE d[k]]

RECURSIVE ParseValue(_)
RECURSIVE ParseMembers(_, _)

\* the members of an object after "{" or ",": key value, then "," or "}"
ParseMembers(toks, acc) ==
    IF toks = <<>> \/ Head(toks) \notin KeyToks THEN ParseFail
    ELSE LET v == ParseValue(Tail(toks)) IN
         IF ~v.ok \/ v.rest = <<>> THEN ParseFail
         ELSE LET acc2 == DictPut(acc, KeyOf(Head(toks)), v.value) IN
              IF Head(v.rest) = "}" THEN ParseOk(JDict(acc2), Tail(v.rest))
              ELSE IF Head(v.rest) = "," THEN ParseMembers(Tail(v.rest), acc2)
              ELSE ParseFail

ParseValue(toks) ==
    IF toks = <<>> THEN ParseFail
    ELSE IF Head(toks) \in NumToks THEN ParseOk(JNum(Head(toks)), Tail(toks))
    ELSE IF Head(toks) \in StrToks THEN ParseOk(JStr(StrOf(Head(toks))), Tail(toks))
    ELSE IF Head(toks) = "{"
         THEN IF Tail(toks) # <<>> /\ Head(Tail(toks)) = "}"
              THEN ParseOk(JDict(EmptyDict), Tail(Tail(toks)))
              ELSE ParseMembers(Tail(toks), EmptyDict)
    ELSE ParseFail

\* json.loads(text): the value, or an exception
json_loads(text) ==
    LET r == ParseValue(text) IN
    IF r.ok /\ r.rest = <<>> THEN r ELSE ParseFail

RECURSIVE SeqsUpTo(_, _)
SeqsUpTo(S, n) ==
    IF n = 0 THEN {<<>>}
    ELSE LET shorter == SeqsUpTo(S, n - 1) IN
         shorter \cup { Append(q, x) : q \in { p \in shorter : Len(p) = n - 1 }, x \in S }

\* the texts the operator types at the edit prompt
JsonTexts == SeqsUpTo(JsonToks, MaxTextLen)

(***************************************************************************)
(* The Chainlit controller of app.py                                       *)
(***************************************************************************)
NoCommand == [resume |-> <<>>]
\* Command(resume=[decision])
Command(decision) == [resume |-> <<decision>>]

\* what a prompt gave back: None, or a dict
NoAnswer == [prompt |-> "none", isNone |-> TRUE, hasContent |-> FALSE, value |-> "", text |-> <<>>]
\* AskActionMessage: None, or {"payload": {"value": v}} / {"payload": {}}
ActionNone == [prompt |-> "action", isNone |-> TRUE, hasContent |-> FALSE, value |-> "", text |-> <<>>]
ActionChosen(v) == [prompt |-> "action", isNone |-> FALSE, hasContent |-> TRUE, value |-> v, text |-> <<>>]
ActionNoValue == [prompt |-> "action", isNone |-> FALSE, hasContent |-> FALSE, value |-> "", text |-> <<>>]
\* AskUserMessage: None, a dict with "content", or a dict without it
TextNone(p) == [prompt |-> p, isNone |-> TRUE, hasContent |-> FALSE, value |-> "", text |-> <<>>]
TextNoContent(p) == [prompt |-> p, isNone |-> FALSE, hasContent |-> FALSE, value |-> "", text |-> <<>>]
EditText(text) == [prompt |-> "edit", isNone |-> FALSE, hasContent |-> TRUE, value |-> "", text |-> text]
ResponseText(v) == [prompt |-> "response", isNone |-> FALSE, hasContent |-> TRUE, value |-> v, text |-> <<>>]

ActionAnswers ==
    {ActionNone, ActionNoValue}
    \cup { ActionChosen(v) : v \in {"accept", "edit", "response", "reject"} }

EditAnswers == {TextNone("edit"), TextNoContent("edit")} \cup { EditText(t) : t \in JsonTexts }

ResponseAnswers ==
    {TextNone("response"), TextNoContent("response"), ResponseText("keep it")}

\* what the operator is shown last
NoUi == [kind |-> "none", record |-> RecordRaised, text |-> <<>>]
Card(record) == [kind |-> "card", record |-> record, text |-> <<>>]
Notice(kind) == [kind |-> kind, record |-> RecordRaised, text |-> <<>>]
AnswerUi(text) == [kind |-> "answer", record |-> RecordRaised, text |-> text]

\* one activation of main(): its run_input, the chunks it took, the tokens it
\* streamed into `answer`
Frame(input) == [input |-> input, seen |-> <<>>, streamed |-> <<>>]

IdleCtl ==
    [sid |-> "", pc |-> "idle", stack |-> <<>>, answer |-> NoAnswer,
     command |-> NoCommand, ui |-> NoUi, entries |-> 0, thread |-> "",
     sent |-> <<>>, toolResult |-> NoToolResult, escaped |-> FALSE]

\* is_valid_ai_message(message), app.py 57-66
is_valid_ai_message(message) ==
    LET name == IF message.name.isNone THEN <<>> ELSE message.name.text IN
        /\ IsAI(message)
        /\ Strip(message.content) # <<>>
        /\ is_meaningful_response(message.content)
        /\ ReMatchAgent(name)

\* the value handle_interrupt_resume reads from the chosen action
ChosenValue(answer) == IF answer.hasContent THEN answer.value ELSE ""

\* what handle_interrupt_resume does with the operator's answers: a command,
\* None with a notice to the operator, a further prompt, or an exception
Resolved(command) == [kind |-> "command", command |-> command, notice |-> ""]
Aborted(notice) == [kind |-> "none", command |-> NoCommand, notice |-> notice]
Prompting(p) == [kind |-> "prompt", command |-> NoCommand, notice |-> p]
Raising == [kind |-> "raise", command |-> NoCommand, notice |-> ""]

\* handle_interrupt_resume, lines 240-262, on the answer to AskActionMessage
OnAction(answer) ==
    IF answer.isNone THEN Aborted("no_action")
    ELSE CASE ChosenValue(answer) = "accept" -> Resolved(Command(DAccept))
           [] ChosenValue(answer) = "edit" -> Prompting("ask_edit")
           [] ChosenValue(answer) = "response" -> Prompting("ask_response")
           [] OTHER -> Aborted("unsupported")

OnEditText_Flat(answer) ==
    IF answer.isNone THEN Aborted("invalid_json")
    ELSE LET parsed == IF answer.hasContent THEN json_loads(answer.text)
                       ELSE json_loads(<<"{", "}">>)
         IN  IF parsed.ok THEN Resolved(Command([type |-> "edit", args |-> parsed.value]))
             ELSE Aborted("invalid_json")

OnEditText_Fabricate(answer) ==
    IF answer.isNone THEN Resolved(Command(DEdit(JDict(EmptyDict))))
    ELSE LET parsed == IF answer.hasContent THEN json_loads(answer.text)
                       ELSE json_loads(<<"{", "}">>)
         IN  IF parsed.ok THEN Resolved(Command(DEdit(parsed.value)))
             ELSE Resolved(Command(DEdit(JDict(EmptyDict))))

\* lines 250-256, on the answer to the edit prompt
OnEditText(answer) ==
    IF answer.isNone THEN Aborted("invalid_json")     \* None.get raises inside the try
    ELSE LET parsed == IF answer.hasContent THEN json_loads(answer.text)
                       ELSE json_loads(<<"{", "}">>)
         IN  IF parsed.ok THEN Resolved(Command(DEdit(parsed.value)))
             ELSE Aborted("invalid_json")

\* lines 258-259, on the answer to the response prompt
OnResponseText(answer) ==
    IF answer.isNone THEN Raising                      \* None.get raises, no try
    ELSE Resolved(Command(DResponse(IF answer.hasContent THEN answer.value ELSE "")))

Top(c) == c.stack[Len(c.stack)]

\* main returns, and every activation awaiting it returns after it (line 300)
Unwound(c) == [c EXCEPT !.stack = <<>>, !.pc = "idle"]

\* an exception leaves the top activation of main: the activation awaiting
\* it catches it in its loop (line 306) and goes on with its own stream
Thrown(c) ==
    IF Len(c.stack) > 1
    THEN [c EXCEPT !.stack = SubSeq(@, 1, Len(@) - 1), !.pc = "iter"]
    ELSE [c EXCEPT !.stack = <<>>, !.pc = "idle", !.escaped = TRUE]

\* main on one chunk of supervisor.astream, lines 288-309
MainOnChunk(c, e) ==
    LET n == Len(c.stack)
        read == [c EXCEPT !.stack[n].seen = Append(@, e)]
    IN  CASE e.type = "end" -> [Unwound(c) EXCEPT !.ui = AnswerUi(Top(c).streamed)]
          [] e.type = "raise" -> Thrown(c)
          [] IsInterruptEvent(e) ->
                LET record == extract_interrupt_message(HitlContainer(e.tool)) IN
                IF record.raised THEN read
                ELSE [read EXCEPT !.pc = "ask_action", !.ui = Card(record),
                                  !.answer = NoAnswer, !.command = NoCommand]
          [] e.type = "message" /\ is_valid_ai_message(e.msg) ->
                [read EXCEPT !.stack[n].streamed = Append(@, e.msg.content)]
          [] OTHER -> read

\* await main(message, came_from_resume=True, command=new_command): the
\* runtime is entered with the command on the controller's own thread
MainResumed(c, answer, command, checkpoint) ==
    LET decision == command.resume[1]
        resumed == RuntimeResume(checkpoint, decision)
        entered == [c EXCEPT !.answer = answer, !.command = command, !.pc = "iter",
                             !.entries = @ + 1, !.thread = c.sid,
                             !.sent = resumed.sent, !.toolResult = resumed.toolResult]
    IN  IF resumed.raised THEN entered
        ELSE [entered EXCEPT !.stack = Append(@, Frame(ResumeInput(decision)))]

\* main after handle_interrupt_resume returned without a command
MainAborted(c, answer, notice) ==
    [Unwound(c) EXCEPT !.answer = answer, !.ui = Notice(notice)]

\* main after handle_interrupt_resume answered `r` to the operator's `answer`
MainAfterAnswer(c, answer, r, checkpoint) ==
    CASE r.kind = "command" -> MainResumed(c, answer, r.command, checkpoint)
      [] r.kind = "none" -> MainAborted(c, answer, r.notice)
      [] r.kind = "prompt" -> [c EXCEPT !.answer = answer, !.pc = r.notice]
      [] OTHER -> [c EXCEPT !.answer = answer, !.pc = "iter"]   \* caught at line 306

CtlMsgs ==
    { Msg("ai", AgentName, <<"Done", SP>>, FALSE),
      Msg("ai", NoName, <<"Done">>, FALSE) }

\* what the runtime may emit next to the controller: a wrapped tool is called
\* only while main can still be re-entered within the bound
CtlNextEvents(seen, depth) ==
    { MessageEvent(m) : m \in CtlMsgs } \cup {UpdateEvent, EndEvent, RaiseEvent}
    \cup (IF HasInterrupt(seen) \/ depth >= MaxDepth THEN {}
          ELSE { ToolCallEvent(t) : t \in {"delete_category", "delete_product"} })

(***************************************************************************)
(* The remote command client and the tool wrappers over it                 *)
(***************************************************************************)
\* what the server answers: a status and a body, or no answer at all when
\* the transport fails (requests.exceptions.RequestException)
Response(status, text) == [kind |-> "response", status |-> status, text |-> text]
TransportError == [kind |-> "error", status |-> 0, text |-> <<>>]

Statuses == {200, 201, 304, 400, 401, 404, 500}

\* response.text, as JSON tokens or as text that is no JSON
ResponseTexts ==
    { <<"{", "\"qty\":", "5", "}">>, <<"\"X\"">>, <<"5">>, <<"{">>, <<"Not Found">>, <<>> }

Responses ==
    { Response(st, tx) : st \in Statuses, tx \in ResponseTexts } \cup {TransportError}

\* response.raise_for_status(): HTTPError for a 4xx or 5xx status
raise_for_status(response) == 400 <= response.status /\ response.status < 600

\* a body as send_request hands it on: the parsed JSON, or the raw text
NoBody == [json |-> FALSE, value |-> JStr(""), text |-> <<>>]
JsonBody(value) == [json |-> TRUE, value |-> value, text |-> <<>>]
TextBody(text) == [json |-> FALSE, value |-> JStr(""), text |-> text]

\* response.json() if it parses, else response.text
BodyOf(response) ==
    LET parsed == json_loads(response.text) IN
    IF parsed.ok THEN JsonBody(parsed.value) ELSE TextBody(response.text)

\* the outcome of send_request: the body returned, or ValueError with the
\* texts its message is made of and the body quoted in it
SendReturned(body) == [raised |-> FALSE, message |-> <<>>, quoted |-> FALSE, body |-> body]
SendRaised(message, quoted, body) ==
    [raised |-> TRUE, message |-> message, quoted |-> quoted, body |-> body]

NoSend == [raised |-> FALSE, message |-> <<"<none>">>, quoted |-> FALSE, body |-> NoBody]

\* MagentoOAuthClient.send_request, lines 155-194: the HTTPError branch
\* raises ValueError inside the outer try, whose `except Exception` wraps
\* it once more
send_request(response) ==
    IF response.kind = "error"
    THEN SendRaised(<<"Request failed: ">>, FALSE, NoBody)
    ELSE IF raise_for_status(response)
    THEN SendRaised(<<"Failed to send request: ", "Request failed: ", "Magento says: ">>,
                    TRUE, BodyOf(response))
    ELSE SendReturned(BodyOf(response))

\* the tool wrappers of the model and what each does with an exception of
\* its body: "envelope" returns {"error": ...}, "reraise" raises another
\* exception, "none" has no try
ToolWrappers ==
    [list_countries |-> "none",
     create_shipment |-> "none",
     get_order_info_by_increment_id |-> "reraise",
     delete_category |-> "envelope",
     create_invoice |-> "envelope",
     cancel_order |-> "envelope"]

ToolNames == DOMAIN ToolWrappers

\* what a wrapper gives its caller: a value with the keys of its dict (none
\* for a value that is no dict of the wrapper), or an exception
ToolReturned(keys, send) == [raised |-> FALSE, keys |-> keys, message |-> send.message, body |-> send.body]
ToolRaised(message, body) == [raised |-> TRUE, keys |-> {}, message |-> message, body |-> body]
NoOut == [raised |-> FALSE, keys |-> {"<none>"}, message |-> <<>>, body |-> NoBody]

\* the keys of the dict a wrapper returns when its body ran through
SuccessKeys(t) ==
    CASE t = "create_shipment" -> {"shipment_id", "done", "status", "message"}
      [] t = "delete_category" -> {"status", "message"}
      [] t = "cancel_order" -> {"success", "order_id", "message"}
      [] t = "create_invoice" -> {"invoice_id"}
      [] OTHER -> {}

\* get_order_info_by_increment_id, lines 224-243: response.get("items")
\* raises on a body that is no dict, and an absent or empty "items" raises
\* "No order found"
OrderFound(body) ==
    /\ body.json
    /\ body.value.t = "dict"
    /\ "items" \in DOMAIN body.value.d
    /\ body.value.d["items"].t = "dict"
    /\ DOMAIN body.value.d["items"].d # {}

\* one call of the tool t whose send_request had the outcome `send`
ToolCall(t, send) ==
    CASE ToolWrappers[t] = "envelope" ->
            IF send.raised THEN ToolReturned({"error"}, send)    \* {"error": str(e)}
            ELSE ToolReturned(SuccessKeys(t), send)
      [] ToolWrappers[t] = "reraise" ->
            IF send.raised \/ ~OrderFound(send.body)
            THEN ToolRaised(<<"Failed to retrieve order using increment ID">>, NoBody)
            ELSE ToolReturned({}, send)
      [] OTHER ->
            IF send.raised THEN ToolRaised(send.message, send.body)
            ELSE ToolReturned(SuccessKeys(t), send)

IdleCall ==
    [pc |-> "idle", tool |-> "", response |-> TransportError, send |-> NoSend, out |-> NoOut]


(***************************************************************************)
(* create_order_for_customer: the requests of one order                    *)
(***************************************************************************)
\* bool(value) of what send_request returned
Truthy(body) ==
    IF ~body.json THEN body.text # <<>>
    ELSE CASE body.value.t = "dict" -> DOMAIN body.value.d # {}
           [] body.value.t = "num" -> body.value.s # "0"
           [] OTHER -> body.value.s # ""

\* how the server answers one request of the order
OrderResponses ==
    { Response(200, <<"5">>), Response(200, <<>>), Response(304, <<>>),
      Response(400, <<"Not Found">>), TransportError }

IdleOrder ==
    [pc |-> "idle", items |-> 0, left |-> 0, sent |-> <<>>, replies |-> <<>>,
     keys |-> {"<none>"}]

\* the request the tool is about to send, by its position in the body
RequestAt(pc) ==
    CASE pc = "cart" -> "create_cart"
      [] pc = "items" -> "add_item"
      [] pc = "shipping" -> "shipping_information"
      [] pc = "payment" -> "selected_payment_method"
      [] pc = "place" -> "place_order"

\* the tool returns a dict with these keys
OrderReturns(o, keys) == [o EXCEPT !.pc = "done", !.keys = keys]

\* create_order_for_customer from the request at o.pc, answered by
\* `response`, up to its next request or its return
OrderStep(o, response) ==
    LET sent == [o EXCEPT !.sent = Append(@, RequestAt(o.pc)),
                          !.replies = Append(@, response)]
        send == send_request(response)
    IN  IF send.raised THEN OrderReturns(sent, {"error"})     \* except Exception
        ELSE CASE o.pc = "cart" ->
                    IF ~Truthy(send.body) THEN OrderReturns(sent, {"error"})
                    ELSE [sent EXCEPT !.pc = IF o.left > 0 THEN "items" ELSE "shipping"]
               [] o.pc = "items" ->
                    [sent EXCEPT !.left = @ - 1,
                                 !.pc = IF o.left > 1 THEN "items" ELSE "shipping"]
               [] o.pc = "shipping" -> [sent EXCEPT !.pc = "payment"]
               [] o.pc = "payment" -> [sent EXCEPT !.pc = "place"]
               [] o.pc = "place" ->
                    OrderReturns(sent, {"order_increment_id", "status", "done"})

(***************************************************************************)
(* low_stock_alert: the paging loop                                        *)
(***************************************************************************)
\* a page of the lowStock endpoint: how many items it lists and the
\* total_count it reports, or a request that fails or whose answer is no dict
Page(items, total_count) == [failed |-> FALSE, items |-> items, total_count |-> total_count]
FailedPage == [failed |-> TRUE, items |-> 0, total_count |-> 0]

Pages ==
    { Page(n, t) : n \in 0..MaxPageItems, t \in 0..MaxTotal } \cup {FailedPage}

IdlePaging ==
    [pc |-> "idle", current_page |-> 0, all_items |-> 0, last |-> FailedPage,
     lookup |-> "none", out |-> "none"]

\* one turn of `while True`: the page requested, its items collected, and
\* the loop left when len(all_items) >= total_count
PageStep(p, page) ==
    IF page.failed THEN [p EXCEPT !.pc = "done", !.last = page, !.out = "error"]
    ELSE LET all_items == p.all_items + page.items IN
         IF all_items >= page.total_count
         THEN [p EXCEPT !.pc = "lookup", !.all_items = all_items, !.last = page]
         ELSE [p EXCEPT !.current_page = @ + 1, !.all_items = all_items, !.last = page]

\* after the loop: get_product_skus_by_ids and the result list, inside the
\* same try
LookupStep(p, ok) ==
    IF ok THEN [p EXCEPT !.pc = "done", !.lookup = "ok", !.out = "list"]
    ELSE [p EXCEPT !.pc = "done", !.lookup = "raised", !.out = "error"]
(***************************************************************************)
(* Each specification leaves the state of the others idle                  *)
(***************************************************************************)
IdleExtract == messages = <<>> /\ result = NoResult /\ calls = 0

IdleInterrupt == container = <<>> /\ irec = NoRecord

IdleProtocol == rt = [s \in Sessions |-> RtRunning] /\ req = IdleReq

IdleChainlit == ctl = IdleCtl

IdleTools == call = IdleCall /\ order = IdleOrder /\ paging = IdlePaging

(***************************************************************************)
(* Specification of extract_final_response over message lists              *)
(***************************************************************************)
InitExtract ==
    /\ messages = <<>>
    /\ result = NoResult
    /\ calls = 0
    /\ IdleInterrupt
    /\ IdleProtocol
    /\ IdleChainlit
    /\ IdleTools

\* the runtime appends one turn message to the list
AppendMessage ==
    /\ calls = 0
    /\ Len(messages) < MaxMsgs
    /\ \E m \in MsgPool : messages' = Append(messages, m)
    /\ UNCHANGED <<result, calls, ivars, pvars, cvars, tvars>>

\* a call that consumes the list it scans
ExtractCall_Consuming(msgs) ==
    [result |-> extract_final_response(msgs),
     messages |-> IF msgs = <<>> THEN msgs ELSE SubSeq(msgs, 1, Len(msgs) - 1)]

\* a call of extract_final_response: the outcome, and the list as the call
\* leaves it (the function only reads the list, through reversed())
ExtractCall(msgs) == [result |-> extract_final_response(msgs), messages |-> msgs]

\* response_text = extract_final_response(result["messages"]), applied to
\* the list of one run, and applied to that list again
ExtractFinalResponse ==
    /\ calls < MaxCalls
    /\ LET c == ExtractCall(messages) IN
        /\ result' = c.result
        /\ messages' = c.messages
    /\ calls' = calls + 1
    /\ UNCHANGED <<ivars, pvars, cvars, tvars>>

NextExtract == AppendMessage \/ ExtractFinalResponse

SpecExtract == InitExtract /\ [][NextExtract]_vars

(***************************************************************************)
(* Specification of the three interrupt extractions                        *)
(***************************************************************************)
InitInterrupt ==
    /\ container \in Containers
    /\ irec = NoRecord
    /\ IdleExtract
    /\ IdleProtocol
    /\ IdleChainlit
    /\ IdleTools

\* chat_with_agent, lines 80-101
ChatExtractInterrupt ==
    /\ irec = NoRecord
    /\ irec' = [where |-> "chat", record |-> RoutesRecord(container)]
    /\ UNCHANGED <<container, xvars, pvars, cvars, tvars>>

\* chat_with_agent_stream.stream_response, lines 200-219
StreamExtractInterrupt ==
    /\ irec = NoRecord
    /\ irec' = [where |-> "stream", record |-> RoutesRecord(container)]
    /\ UNCHANGED <<container, xvars, pvars, cvars, tvars>>

\* handle_interrupt_resume, line 232
ChainlitExtractInterrupt ==
    /\ irec = NoRecord
    /\ irec' = [where |-> "chainlit", record |-> extract_interrupt_message(container)]
    /\ UNCHANGED <<container, xvars, pvars, cvars, tvars>>

NextInterrupt == ChatExtractInterrupt \/ StreamExtractInterrupt \/ ChainlitExtractInterrupt

SpecInterrupt == InitInterrupt /\ [][NextInterrupt]_vars

(***************************************************************************)
(* Specification of the HTTP endpoints over the runtime: one request is    *)
(* served at a time, a streaming response one chunk at a time              *)
(***************************************************************************)
Init ==
    /\ rt = [s \in Sessions |-> RtRunning]
    /\ req = IdleReq
    /\ IdleExtract
    /\ IdleInterrupt
    /\ IdleChainlit
    /\ IdleTools

Free == req.pc \in {"idle", "done"}

\* POST /assistant/chat
ChatRequest ==
    /\ Free
    /\ \E sid \in Sessions \cup {""} :
        IF sid = ""
        THEN /\ req' = Rejected("chat", sid, MessageInput, 400,
                                ErrorFrag("session_id is required", FALSE))
             /\ UNCHANGED rt
        ELSE \E run \in InvokeRuns :
             /\ req' = ChatAnswer([Entered("chat", sid, RunInput(EmptyDict, FALSE), rt[thread_id(sid)])
                                      EXCEPT !.seen = run, !.sent = SentByAll(run)], run)
             /\ rt' = [rt EXCEPT ![thread_id(sid)] = CheckpointAfterRun(RtRunning, run)]
    /\ UNCHANGED <<xvars, ivars, cvars, tvars>>

\* POST /assistant/resumebak
ResumeBakRequest ==
    /\ Free
    /\ \E sid \in Sessions, action \in Decisions :
        LET resumed == RuntimeResume(rt[thread_id(sid)], action)
            entered == [Entered("resumebak", sid, RunInput(action, TRUE), rt[thread_id(sid)])
                           EXCEPT !.sent = resumed.sent, !.toolResult = resumed.toolResult]
        IN  IF resumed.raised
            THEN /\ req' = ResumeBakAnswer(entered, <<RaiseEvent>>)
                 /\ UNCHANGED rt
            ELSE \E run \in (IF rt[thread_id(sid)].paused THEN InvokeRuns ELSE {<<>>}) :
                 /\ req' = ResumeBakAnswer([entered EXCEPT !.seen = run,
                                               !.sent = @ \o SentByAll(run)], run)
                 /\ rt' = [rt EXCEPT ![thread_id(sid)] =
                              CheckpointAfterRun(CheckpointAfterResume(rt[thread_id(sid)], action), run)]
    /\ UNCHANGED <<xvars, ivars, cvars, tvars>>

\* POST /assistant/chat/stream: the handler up to the StreamingResponse
ChatStreamOpen ==
    /\ Free
    /\ \E sid \in Sessions \cup {""} :
        IF sid = ""
        THEN /\ req' = Rejected("chat_stream", sid, MessageInput, 500,
                                ErrorFrag(ApologyStream, TRUE))
             /\ UNCHANGED rt
        ELSE /\ req' = [Entered("chat_stream", sid, RunInput(EmptyDict, FALSE), rt[thread_id(sid)]) EXCEPT !.pc = "iter"]
             /\ rt' = [rt EXCEPT ![thread_id(sid)] = RtRunning]
    /\ UNCHANGED <<xvars, ivars, cvars, tvars>>

\* the response generator of /chat/stream takes the next chunk
ChatStreamChunk ==
    /\ req.endpoint = "chat_stream" /\ req.pc = "iter"
    /\ \E e \in NextEvents(req.seen) :
        /\ Len(req.seen) < MaxEvents \/ e.type \in {"end", "raise"}
        /\ req' = [ChatStreamOnChunk(req, e) EXCEPT !.sent = @ \o SentBy(e)]
        /\ rt' = [rt EXCEPT ![req.thread] = CheckpointAfterEvent(@, e)]
    /\ UNCHANGED <<xvars, ivars, cvars, tvars>>

\* POST /assistant/resume: the handler up to the StreamingResponse, and the
\* runtime entered with the command
ResumeStreamOpen ==
    /\ Free
    /\ \E sid \in Sessions, action \in Decisions :
        LET resumed == RuntimeResume(rt[thread_id(sid)], action)
            entered == [Entered("resume", sid, RunInput(action, TRUE), rt[thread_id(sid)])
                           EXCEPT !.sent = resumed.sent, !.toolResult = resumed.toolResult]
        IN  IF resumed.raised
            THEN /\ req' = [entered EXCEPT !.pc = "done", !.escaped = TRUE]
                 /\ UNCHANGED rt
            ELSE /\ req' = [entered EXCEPT !.pc = IF rt[thread_id(sid)].paused THEN "iter" ELSE "done"]
                 /\ rt' = [rt EXCEPT ![thread_id(sid)] = CheckpointAfterResume(@, action)]
    /\ UNCHANGED <<xvars, ivars, cvars, tvars>>

\* the response generator of /resume takes the next chunk
ResumeStreamChunk ==
    /\ req.endpoint = "resume" /\ req.pc = "iter"
    /\ \E e \in NextEvents(req.seen) :
        /\ Len(req.seen) < MaxEvents \/ e.type \in {"end", "raise"}
        /\ req' = [ResumeStreamOnChunk(req, e) EXCEPT !.sent = @ \o SentBy(e)]
        /\ rt' = [rt EXCEPT ![req.thread] = CheckpointAfterEvent(@, e)]
    /\ UNCHANGED <<xvars, ivars, cvars, tvars>>

Next ==
    \/ ChatRequest
    \/ ResumeBakRequest
    \/ ChatStreamOpen
    \/ ChatStreamChunk
    \/ ResumeStreamOpen
    \/ ResumeStreamChunk

Spec == Init /\ [][Next]_vars

(***************************************************************************)
(* Specification of the Chainlit controller over the runtime               *)
(***************************************************************************)
InitChainlit ==
    /\ rt = [s \in Sessions |-> RtRunning]
    /\ req = IdleReq
    /\ ctl = IdleCtl
    /\ IdleExtract
    /\ IdleInterrupt
    /\ IdleTools

\* @cl.on_message: main(message) for a chat of thread sid
CtlMessage ==
    /\ ctl.pc = "idle"
    /\ \E sid \in Sessions :
        /\ ctl' = [IdleCtl EXCEPT !.sid = sid, !.pc = "iter", !.thread = sid,
                                  !.stack = <<Frame(MessageInput)>>, !.entries = 1]
        /\ rt' = [rt EXCEPT ![sid] = RtRunning]
    /\ UNCHANGED <<xvars, ivars, req, tvars>>

\* the loop of main takes the next chunk of its stream
CtlChunk ==
    /\ ctl.pc = "iter"
    /\ \E e \in CtlNextEvents(Top(ctl).seen, Len(ctl.stack)) :
        /\ Len(Top(ctl).seen) < MaxEvents \/ e.type \in {"end", "raise"}
        /\ ctl' = [MainOnChunk(ctl, e) EXCEPT !.sent = @ \o SentBy(e)]
        /\ rt' = [rt EXCEPT ![ctl.sid] = CheckpointAfterEvent(@, e)]
    /\ UNCHANGED <<xvars, ivars, req, tvars>>

\* the operator answers the AskActionMessage, or lets it time out
CtlAction ==
    /\ ctl.pc = "ask_action"
    /\ \E a \in ActionAnswers :
        /\ ctl' = MainAfterAnswer(ctl, a, OnAction(a), rt[ctl.sid])
        /\ rt' = IF OnAction(a).kind = "command"
                 THEN [rt EXCEPT ![ctl.sid] = CheckpointAfterResume(@, OnAction(a).command.resume[1])]
                 ELSE rt
    /\ UNCHANGED <<xvars, ivars, req, tvars>>

\* the operator answers the edit prompt
CtlEditText ==
    /\ ctl.pc = "ask_edit"
    /\ \E a \in EditAnswers :
        /\ ctl' = MainAfterAnswer(ctl, a, OnEditText(a), rt[ctl.sid])
        /\ rt' = IF OnEditText(a).kind = "command"
                 THEN [rt EXCEPT ![ctl.sid] = CheckpointAfterResume(@, OnEditText(a).command.resume[1])]
                 ELSE rt
    /\ UNCHANGED <<xvars, ivars, req, tvars>>

\* the operator answers the response prompt
CtlResponseText ==
    /\ ctl.pc = "ask_response"
    /\ \E a \in ResponseAnswers :
        /\ ctl' = MainAfterAnswer(ctl, a, OnResponseText(a), rt[ctl.sid])
        /\ rt' = IF OnResponseText(a).kind = "command"
                 THEN [rt EXCEPT ![ctl.sid] = CheckpointAfterResume(@, OnResponseText(a).command.resume[1])]
                 ELSE rt
    /\ UNCHANGED <<xvars, ivars, req, tvars>>

NextChainlit ==
    \/ CtlMessage
    \/ CtlChunk
    \/ CtlAction
    \/ CtlEditText
    \/ CtlResponseText

SpecChainlit == InitChainlit /\ [][NextChainlit]_vars

(***************************************************************************)
(* Specification of both front ends: the FastAPI router and the Chainlit   *)
(* application are separate programs, a deployment runs one of them over   *)
(* the runtime                                                             *)
(***************************************************************************)
InitFrontEnds ==
    /\ rt = [s \in Sessions |-> RtRunning]
    /\ req = IdleReq
    /\ ctl = IdleCtl
    /\ IdleExtract
    /\ IdleInterrupt
    /\ IdleTools

\* a step of the router (backend/assistant/routes.py)
RouterStep == ctl = IdleCtl /\ Next

\* a step of the Chainlit application (app.py)
ChainlitStep == req = IdleReq /\ NextChainlit

NextFrontEnds ==
    \/ RouterStep
    \/ ChainlitStep

SpecFrontEnds == InitFrontEnds /\ [][NextFrontEnds]_vars

(***************************************************************************)
(* Specification of the remote command client and the tool wrappers        *)
(***************************************************************************)
InitTools ==
    /\ call = IdleCall
    /\ order = IdleOrder
    /\ paging = IdlePaging
    /\ IdleExtract
    /\ IdleInterrupt
    /\ IdleProtocol
    /\ IdleChainlit

\* magento_client.send_request(...) answered by `response`
SendRequest ==
    /\ call.pc = "idle"
    /\ \E response \in Responses :
        call' = [call EXCEPT !.pc = "done", !.response = response,
                             !.send = send_request(response)]
    /\ UNCHANGED <<xvars, ivars, pvars, cvars, ovars>>

\* an agent calls a tool, whose request is answered by `response`
CallTool ==
    /\ call.pc = "idle"
    /\ \E t \in ToolNames, response \in Responses :
        call' = [call EXCEPT !.pc = "done", !.tool = t, !.response = response,
                             !.send = send_request(response),
                             !.out = ToolCall(t, send_request(response))]
    /\ UNCHANGED <<xvars, ivars, pvars, cvars, ovars>>

NextTools ==
    \/ SendRequest
    \/ CallTool

SpecTools == InitTools /\ [][NextTools]_vars


(***************************************************************************)
(* Specification of create_order_for_customer                              *)
(***************************************************************************)
InitOrder ==
    /\ order = IdleOrder
    /\ call = IdleCall
    /\ paging = IdlePaging
    /\ IdleExtract
    /\ IdleInterrupt
    /\ IdleProtocol
    /\ IdleChainlit

\* an agent calls create_order_for_customer with some items
CreateOrderForCustomer ==
    /\ order.pc = "idle"
    /\ \E n \in 0..MaxItems :
        order' = [order EXCEPT !.pc = "cart", !.items = n, !.left = n]
    /\ UNCHANGED <<xvars, ivars, pvars, cvars, call, paging>>

\* the server answers the tool's pending request
OrderRequest ==
    /\ order.pc \in {"cart", "items", "shipping", "payment", "place"}
    /\ \E response \in OrderResponses : order' = OrderStep(order, response)
    /\ UNCHANGED <<xvars, ivars, pvars, cvars, call, paging>>

NextOrder == CreateOrderForCustomer \/ OrderRequest

SpecOrder == InitOrder /\ [][NextOrder]_vars

(***************************************************************************)
(* Specification of low_stock_alert                                        *)
(***************************************************************************)
InitStock ==
    /\ paging = IdlePaging
    /\ call = IdleCall
    /\ order = IdleOrder
    /\ IdleExtract
    /\ IdleInterrupt
    /\ IdleProtocol
    /\ IdleChainlit

\* an agent calls low_stock_alert
LowStockAlert ==
    /\ paging.pc = "idle"
    /\ paging' = [paging EXCEPT !.pc = "page", !.current_page = 1]
    /\ UNCHANGED <<xvars, ivars, pvars, cvars, call, order>>

\* the server answers the request of the current page
StockPage ==
    /\ paging.pc = "page"
    /\ paging.current_page <= MaxPages
    /\ \E page \in Pages : paging' = PageStep(paging, page)
    /\ UNCHANGED <<xvars, ivars, pvars, cvars, call, order>>

\* the SKU lookup and the result list
StockLookup ==
    /\ paging.pc = "lookup"
    /\ \E ok \in BOOLEAN : paging' = LookupStep(paging, ok)
    /\ UNCHANGED <<xvars, ivars, pvars, cvars, call, order>>

NextStock == LowStockAlert \/ StockPage \/ StockLookup

SpecStock == InitStock /\ [][NextStock]_vars
(***************************************************************************)
(* C1: whenever the list holds a meaningful Assistant message whose name   *)
(* ends with _agent, the result is the trimmed content of the most recent  *)
(* such message, even when a more recent meaningful Assistant message      *)
(* without an _agent name exists.                                          *)
(***************************************************************************)
IsAgentMeaningful(m) ==
    IsAI(m) /\ ~m.name.isNone /\ EndsWithAgent(m.name.text) /\ is_meaningful(m)

LastAgentMeaningful(msgs) ==
    CHOOSE i \in 1..Len(msgs) :
        /\ IsAgentMeaningful(msgs[i])
        /\ \A j \in (i + 1)..Len(msgs) : ~IsAgentMeaningful(msgs[j])

C1_Tier1Wins ==
    (result # NoResult /\ \E i \in 1..Len(messages) : IsAgentMeaningful(messages[i]))
        => result = Returned(Strip(messages[LastAgentMeaningful(messages)].content))


NoAssistant(msgs) == \A i \in 1..Len(msgs) : ~IsAI(msgs[i])

\* C14: for every message list without an Assistant message (Human,
\* Tool-Result and System messages in any mix, or no message at all),
\* extract_final_response returns exactly "No meaningful response found.".
C14_FallbackLiteral ==
    (result # NoResult /\ NoAssistant(messages))
        => result = [raised |-> FALSE, text |-> <<"No meaningful response found.">>]

C14_Witness ==
    /\ result = [raised |-> FALSE, text |-> <<"No meaningful response found.">>]
    /\ Len(messages) = 3
    /\ NoAssistant(messages)
    /\ \E i \in 1..3 : messages[i].role = "system"
    /\ \E i \in 1..3 : messages[i].role = "tool"

NonEmptyAssistant(m) == IsAI(m) /\ m.content # <<>>

LastNonEmptyAssistant(msgs) ==
    CHOOSE i \in 1..Len(msgs) :
        /\ NonEmptyAssistant(msgs[i])
        /\ \A j \in (i + 1)..Len(msgs) : ~NonEmptyAssistant(msgs[j])

\* C15: when no Assistant message of the list is meaningful and at least
\* one has non-empty content, extract_final_response returns the content of
\* the last Assistant message with non-empty content, unchanged.
C15_Tier3Verbatim ==
    (/\ result # NoResult
     /\ \A i \in 1..Len(messages) : ~is_meaningful(messages[i])
     /\ \E i \in 1..Len(messages) : NonEmptyAssistant(messages[i]))
        => result = [raised |-> FALSE,
                     text |-> messages[LastNonEmptyAssistant(messages)].content]


C27_NeverRaises ==
    calls >= 1 => ~result.raised

(***************************************************************************)
(* C6: when the first entry of the container has no value, a non-list      *)
(* value or an empty-list value, extraction does not raise and yields      *)
(* action "unknown", args {} and description "", in /chat, /chat/stream    *)
(* and the Chainlit controller alike.                                      *)
(***************************************************************************)
MalformedFirst(cont) ==
    cont # <<>> /\ (cont[1].value.kind # "list" \/ cont[1].value.items = <<>>)

C6_MalformedDefaults ==
    (irec # NoRecord /\ MalformedFirst(container))
        => irec.record = Record("unknown", EmptyDict, "")

(***************************************************************************)
(* C7: when the first entry's value is a non-empty list, the record shown  *)
(* has action, args and description of value[0], each replaced by its      *)
(* default ("unknown", {}, "") when absent; later entries and later        *)
(* elements are ignored.                                                   *)
(***************************************************************************)
ClaimedRecord(cont) ==
    LET p == cont[1].value.items[1]
        ar == IF "action_request" \in DOMAIN p THEN p.action_request ELSE EmptyDict
    IN Record(IF "action" \in DOMAIN ar THEN ar.action ELSE "unknown",
              IF "args" \in DOMAIN ar THEN ar.args ELSE EmptyDict,
              IF "description" \in DOMAIN p THEN p.description ELSE "")

C7_FirstPayloadRecord ==
    (irec # NoRecord /\ ~MalformedFirst(container))
        => irec.record = ClaimedRecord(container)

(***************************************************************************)
(* C2: the remote request of a sensitive (human-in-the-loop) tool is never *)
(* sent while its session is Paused: it is sent only by an invocation that *)
(* resumes a Paused session with an accept or edit decision, and after a   *)
(* response decision the tool is not run and the operator's text stands in *)
(* for its result.                                                         *)
(***************************************************************************)
SensitiveTools == {"delete_category", "delete_category_by_name", "delete_product"}

SensitiveSent(r) == { i \in 1..Len(r.sent) : r.sent[i].tool \in SensitiveTools }

ResumesPauseWith(r, types) ==
    /\ r.input.kind = "resume"
    /\ r.wasPaused
    /\ "type" \in DOMAIN r.input.decision
    /\ r.input.decision.type \in types

C2_SensitiveOnlyOnDecision ==
    /\ SensitiveSent(req) # {} => ResumesPauseWith(req, {"accept", "edit"})
    /\ (ResumesPauseWith(req, {"response"}) /\ "args" \in DOMAIN req.input.decision)
          => /\ SensitiveSent(req) = {}
             /\ req.toolResult = OperatorResult(req.input.decision.args)

C2_Witness ==
    /\ ResumesPauseWith(req, {"edit"})
    /\ req.sent # <<>>
    /\ req.sent[1] = RemoteRequest("delete_category", EditedInput)
    /\ ~rt[req.sid].paused

(***************************************************************************)
(* C3: every session is either Running or Paused with at most one pending  *)
(* Interrupt Record, and while a session is Paused no agent turn executes  *)
(* for it until a Resume Decision arrives, also when a new chat message    *)
(* for that session is received during the pause.                          *)
(***************************************************************************)
C3_PausedBlocksTurns ==
    /\ \A s \in Sessions :
        /\ rt[s].paused <=> rt[s].pending # <<>>
        /\ Len(rt[s].pending) <= 1
    /\ (req.invoked /\ req.wasPaused) => req.input.kind = "resume"

(***************************************************************************)
(* C4: when the runtime emits an interrupt during an invocation (first or  *)
(* resumed, streaming or not), the response of that invocation carries the *)
(* interrupt payload for it and the session is Paused; the interrupt is    *)
(* never skipped in favour of later events or of an extracted answer.      *)
(***************************************************************************)
C4_InterruptReachesOperator ==
    (req.pc = "done" /\ HasInterrupt(req.seen))
        => /\ \E i \in 1..Len(req.out) :
                req.out[i] = InterruptFrag(ResultInterrupt(req.seen))
           /\ rt[req.sid].paused

(***************************************************************************)
(* C5: in one /chat/stream invocation, once an interrupt event is met the  *)
(* adapter emits exactly one interrupt payload fragment, as its last       *)
(* fragment, and ends: no later event of the iterator is read or emitted.  *)
(***************************************************************************)
InterruptsRead(r) == { i \in 1..Len(r.seen) : IsInterruptEvent(r.seen[i]) }

C5_StreamStopsAtInterrupt ==
    (req.endpoint = "chat_stream" /\ InterruptsRead(req) # {})
        => /\ req.pc = "done"
           /\ InterruptsRead(req) = {Len(req.seen)}
           /\ req.out # <<>>
           /\ req.out[Len(req.out)] = InterruptFrag(ResultInterrupt(req.seen))
           /\ Cardinality({ i \in 1..Len(req.out) : req.out[i].kind = "interrupt" }) = 1

C5_Witness ==
    /\ req.endpoint = "chat_stream"
    /\ InterruptsRead(req) # {}
    /\ Len(req.out) = 2
    /\ req.out[1].kind = "text"


StreamEndpoints == {"chat_stream", "resume"}

\* handling a chunk raised: re.match on the None name of an Assistant message
HandlingRaised(r) ==
    \E i \in 1..Len(r.seen) :
        r.seen[i].type = "message" /\ StreamMessageVerdict(r.seen[i].msg) = "raise"

ErrorFrags(r) == { i \in 1..Len(r.out) : r.out[i].kind = "error" }

\* C13: when iterating or handling the event stream raises, the streaming
\* response of /chat/stream and of /resume emits exactly one error
\* fragment, as its last fragment, and ends; the exception never reaches the
\* transport and nothing follows the error fragment.
C13_StreamErrorIsTerminal ==
    (req.invoked /\ req.endpoint \in StreamEndpoints)
        => /\ ~req.escaped
           /\ HandlingRaised(req) => ErrorFrags(req) # {}
           /\ ErrorFrags(req) # {}
                => /\ ErrorFrags(req) = {Len(req.out)}
                   /\ req.pc = "done"


\* C18: every failure response of the chat, stream and resume endpoints is
\* a short apology only: the text of the internal exception appears in no
\* field of it.
C18_NoExceptionText ==
    \A i \in 1..Len(req.out) : req.out[i].kind = "error" => ~req.out[i].exc


\* the Tier-1 test of extract_final_response on one message
Tier1Accepts(m) ==
    /\ IsAI(m)
    /\ ~m.name.isNone
    /\ ReMatchAgent(m.name.text)
    /\ is_meaningful(m)

\* the predicate both are said to apply
QualifiesAsClaimed(m) ==
    /\ IsAI(m)
    /\ m.content # <<>>
    /\ ~m.name.isNone /\ EndsWithAgent(m.name.text)
    /\ ~m.tool_calls
    /\ LET content == Lower(Strip(m.content)) IN
        /\ ~Contains(content, <<"transferred">>)
        /\ ~StartsWith(content, <<"transferring">>)
        /\ ~StartsWith(content, <<"if you have any further">>)
        /\ ~StartsWith(content, <<"i have successfully">>)

\* the chunk a streaming response has just read
ReadsMessage ==
    /\ req.pc = "iter"
    /\ req.endpoint \in StreamEndpoints
    /\ Len(req'.seen) = Len(req.seen) + 1
    /\ req'.seen[Len(req'.seen)].type = "message"

JustRead == req'.seen[Len(req'.seen)].msg

EmitsJustRead == req'.out = Append(req.out, TextFrag(JustRead.content))

\* C19: for every Assistant message, the streaming adapter emits it exactly
\* when Tier 1 of extract_final_response accepts it: non-empty content, a
\* name ending in _agent, no tool calls, and content passing the four
\* hand-off filters on its trimmed, lowercased form.
C19_StreamEqualsTier1 ==
    [][ (ReadsMessage /\ IsAI(JustRead))
        => /\ Tier1Accepts(JustRead) <=> QualifiesAsClaimed(JustRead)
           /\ EmitsJustRead <=> Tier1Accepts(JustRead) ]_vars

\* the fragments a streaming response owes for the events it read: the
\* contents of the qualifying Assistant messages, in order
RECURSIVE OwedFragments(_)
OwedFragments(events) ==
    IF events = <<>> THEN <<>>
    ELSE IF Head(events).type = "message" /\ QualifiesAsClaimed(Head(events).msg)
         THEN <<TextFrag(Head(events).msg.content)>> \o OwedFragments(Tail(events))
         ELSE OwedFragments(Tail(events))

RECURSIVE UpToInterrupt(_)
UpToInterrupt(events) ==
    IF events = <<>> \/ IsInterruptEvent(Head(events)) THEN <<>>
    ELSE <<Head(events)>> \o UpToInterrupt(Tail(events))

TextFragsOf(out) == SelectSeq(out, LAMBDA f : f.kind = "text")

\* C20: up to the first interrupt, the text fragments of a streaming
\* response are exactly the contents of the qualifying Assistant events it
\* read, each once, unchanged and in order; an event that does not qualify
\* emits nothing and neither ends nor fails the stream.
C20_FragmentsAreQualifyingContents ==
    (req.invoked /\ req.endpoint \in StreamEndpoints)
        => /\ (~HasInterrupt(req.seen) \/ req.endpoint = "chat_stream")
                => TextFragsOf(req.out) = OwedFragments(UpToInterrupt(req.seen))
           /\ ErrorFrags(req) # {}
                => \E i \in 1..Len(req.seen) :
                      req.seen[i].type = "message" /\ QualifiesAsClaimed(req.seen[i].msg)

(***************************************************************************)
(* Claims on the Chainlit controller                                       *)
(***************************************************************************)
\* the operator typed `a` at the edit prompt
TypedAtEdit(a) == a.prompt = "edit" /\ ~a.isNone /\ a.hasContent

\* handle_interrupt_resume gave no command and main went no further
NothingResumed ==
    /\ ctl'.command = NoCommand
    /\ ctl'.entries = ctl.entries
    /\ ctl'.sent = ctl.sent
    /\ rt' = rt
    /\ rt[ctl.sid].paused

\* C8: after the operator chose edit and typed text that is not valid JSON,
\* an error is reported to the operator, no resume command is produced, the
\* runtime is not entered again, and the session stays Paused with the same
\* pending interrupt.
C8_InvalidJsonAborts ==
    [][ (/\ ctl.pc = "ask_edit"
         /\ TypedAtEdit(ctl'.answer)
         /\ ~json_loads(ctl'.answer.text).ok)
        => /\ ctl'.ui = Notice("invalid_json")
           /\ NothingResumed
           /\ rt'[ctl.sid].pending = rt[ctl.sid].pending ]_vars

C8_Witness ==
    /\ ctl.pc = "idle"
    /\ TypedAtEdit(ctl.answer)
    /\ ctl.answer.text = <<"{", "\"qty\":", "5">>
    /\ ctl.ui = Notice("invalid_json")
    /\ ctl.command = NoCommand
    /\ ctl.entries = 1
    /\ rt[ctl.sid].paused

\* a prompt that was cancelled or timed out, or an action outside the three
\* supported ones
NoDecision(a) ==
    \/ a.isNone
    \/ a.prompt = "action" /\ ChosenValue(a) \notin {"accept", "edit", "response"}

\* the type of decision the operator asked for at the prompt just answered
AskedFor(pc, a) ==
    CASE pc = "ask_action" -> <<ChosenValue(a)>>
      [] pc = "ask_edit" -> <<"edit">>
      [] pc = "ask_response" -> <<"response">>
      [] OTHER -> <<>>

\* C9: when a prompt is cancelled or times out, or the operator selects an
\* unsupported action, the operator is told that nothing was done, no resume
\* command is produced, the runtime is not entered again and the session
\* stays Paused; and every command produced carries one decision of the type
\* the operator asked for.
C9_NoDecisionNoAction ==
    [][ /\ (ctl.pc \in {"ask_action", "ask_edit", "ask_response"} /\ NoDecision(ctl'.answer))
            => /\ ctl'.ui.kind \in {"no_action", "unsupported", "invalid_json"}
               /\ NothingResumed
        /\ (ctl.pc # "idle" /\ ctl'.command # NoCommand /\ ctl'.command # ctl.command)
            => /\ ~NoDecision(ctl'.answer)
               /\ Len(ctl'.command.resume) = 1
               /\ <<ctl'.command.resume[1].type>> = AskedFor(ctl.pc, ctl'.answer) ]_vars

\* C10: after the operator chose edit and typed text that parses to a JSON
\* mapping M, the resume command carries exactly one decision, equal to
\* {type: "edit", args: {args: M}}, with M as parsed; {"qty": 5} gives
\* {type: "edit", args: {args: {qty: 5}}}.
C10_EditNesting ==
    [][ (/\ ctl.pc = "ask_edit"
         /\ TypedAtEdit(ctl'.answer)
         /\ json_loads(ctl'.answer.text).ok
         /\ json_loads(ctl'.answer.text).value.t = "dict")
        => LET M == json_loads(ctl'.answer.text).value IN
           /\ ctl'.command =
                [resume |-> <<[type |-> "edit",
                               args |-> [t |-> "dict", s |-> "", d |-> [args |-> M]]]>>]
           /\ ctl'.answer.text = <<"{", "\"qty\":", "5", "}">>
                => M = [t |-> "dict", s |-> "",
                        d |-> [qty |-> [t |-> "num", s |-> "5", d |-> EmptyDict]]] ]_vars

C10_Witness ==
    /\ ctl.answer = EditText(<<"{", "\"qty\":", "5", "}">>)
    /\ Len(ctl.command.resume) = 1
    /\ ctl.command.resume[1].type = "edit"
    /\ ctl.command.resume[1].args.d.args.d.qty.s = "5"
    /\ ctl.entries = 2

\* the text the operator gave at the response prompt, "" when none was given
OperatorText(a) == IF ~a.isNone /\ a.hasContent THEN a.value ELSE ""

\* C11: an accept decision resumes with exactly {type: "accept"}, and a
\* response decision resumes with exactly {type: "response", args: T} for
\* the operator's text T, whatever the text prompt returned, also when it
\* returned nothing.
C11_AcceptAndResponsePayloads ==
    [][ /\ (ctl.pc = "ask_action" /\ ctl'.answer = ActionChosen("accept"))
            => ctl'.command = [resume |-> <<[type |-> "accept"]>>]
        /\ (ctl.pc = "ask_response" /\ ctl'.answer.prompt = "response")
            => ctl'.command =
                 [resume |-> <<[type |-> "response",
                                args |-> [t |-> "str", s |-> OperatorText(ctl'.answer),
                                          d |-> EmptyDict]]>>] ]_vars


\* the activation that has seen an interrupt has read nothing after it
StoppedAtInterrupt(frame) ==
    \A i \in 1..Len(frame.seen) : IsInterruptEvent(frame.seen[i]) => i = Len(frame.seen)

\* C21: once an activation of main has seen an interrupt in its event
\* stream, it processes no later event of that stream and streams nothing
\* more to the user, whatever came of asking the operator: a resume, an
\* invalid edit, no decision, or an exception raised while prompting.
C21_NothingAfterInterrupt ==
    \A k \in 1..Len(ctl.stack) : StoppedAtInterrupt(ctl.stack[k])

(***************************************************************************)
(* Claims on both front ends                                               *)
(***************************************************************************)
ResumeEndpoints == {"resumebak", "resume"}

\* C12: every entry of the runtime with a Resume Decision is made on the
\* thread of the session that is resumed, the one whose invocation paused,
\* and its input is the command with the decision alone, without a user
\* message: for /resumebak, for /resume and for the Chainlit controller.
C12_ResumeSameSessionDecisionOnly ==
    /\ (req.invoked /\ req.endpoint \in ResumeEndpoints)
        => /\ req.thread = req.sid
           /\ req.input.kind = "resume"
           /\ req.input.decision \in Decisions
           /\ (req.sent # <<>> => req.wasPaused)
    /\ ctl.entries >= 2
        => /\ ctl.thread = ctl.sid
           /\ \A i \in 2..Len(ctl.stack) :
                /\ ctl.stack[i].input.kind = "resume"
                /\ "type" \in DOMAIN ctl.stack[i].input.decision
           /\ (ctl.pc = "iter" /\ Len(ctl.stack) >= 2 /\ Top(ctl).seen = <<>>)
                => /\ Len(ctl.command.resume) = 1
                   /\ Top(ctl).input = [kind |-> "resume", decision |-> ctl.command.resume[1]]

C12_Witness ==
    /\ req.endpoint = "resume"
    /\ req.sid = "s2"
    /\ req.thread = "s2"
    /\ req.wasPaused
    /\ req.input.decision = [type |-> "accept"]
    /\ req.sent # <<>>
    /\ rt["s1"].paused


\* the session whose request a front end is serving
ServedSession(r, c) == IF c # IdleCtl THEN c.sid ELSE r.sid

C16_ToolsReturnErrorEnvelope ==
    (call.pc = "done" /\ call.tool # "" /\ call.send.raised)
        => /\ ~call.out.raised
           /\ "error" \in call.out.keys

Is2xx(response) == response.kind = "response" /\ response.status \in 200..299

\* the server's body as the claim words it: parsed JSON when it is JSON,
\* else the raw text
ServerBody(response) ==
    IF json_loads(response.text).ok
    THEN [json |-> TRUE, value |-> json_loads(response.text).value, text |-> <<>>]
    ELSE [json |-> FALSE, value |-> JStr(""), text |-> response.text]

\* C17: send_request raises for every non-2xx response, with the server's
\* error body (parsed JSON if it is JSON, else the raw text) in the message,
\* and for a 2xx response returns the parsed JSON body, or the raw text
\* when the body is no JSON.
C17_SendRequestContract ==
    (call.pc = "done" /\ call.response.kind = "response")
        => IF Is2xx(call.response)
           THEN /\ ~call.send.raised
                /\ call.send.body = ServerBody(call.response)
           ELSE /\ call.send.raised
                /\ call.send.quoted
                /\ call.send.body = ServerBody(call.response)


\* C25: every value a tool wrapper returns, on success and on failure, is
\* an envelope with a "status" field; a failure also carries an "error" text.
C25_EveryReturnHasStatus ==
    (call.pc = "done" /\ call.tool # "")
        => /\ ~call.out.raised
           /\ "status" \in call.out.keys
           /\ (call.send.raised => "error" \in call.out.keys)


\* C22: a resume decision is consumed exactly once. A resume request for a
\* session that is not Paused (never paused, or already resumed by an
\* earlier decision) is rejected and does not re-invoke the runtime.
C22_DecisionConsumedOnce ==
    (req.endpoint \in ResumeEndpoints /\ req.invoked) => req.wasPaused

\* a decision of one of the three types whose args fit the type
WellShaped(d) ==
    /\ "type" \in DOMAIN d
    /\ \/ d.type = "accept"
       \/ d.type = "edit" /\ "args" \in DOMAIN d /\ d.args.t = "dict"
       \/ d.type = "response" /\ "args" \in DOMAIN d /\ d.args.t = "str"

\* C23: the runtime is re-invoked only with a decision of type accept, edit
\* or response whose args fit the type; a resume request of any other shape
\* (unknown type, no type, edit without a mapping) is rejected without
\* invoking the runtime.
C23_OnlyWellShapedDecisions ==
    (req.invoked /\ req.input.kind = "resume") => WellShaped(req.input.decision)


(***************************************************************************)
(* Claims on create_order_for_customer and low_stock_alert                 *)
(***************************************************************************)
\* the requests of an order with n items, in the order the claim gives
ClaimedOrder(n) ==
    <<"create_cart">> \o [i \in 1..n |-> "add_item"]
        \o <<"shipping_information", "selected_payment_method", "place_order">>

IsPrefix(s, t) == Len(s) <= Len(t) /\ SubSeq(t, 1, Len(s)) = s

\* a request failed: no answer, or an answer that is not 2xx
RequestFailed(response) == ~Is2xx(response)

\* C28: create_order_for_customer sends its requests in the order create
\* cart, add each item, shipping information, payment method, place order;
\* place order is sent only if every earlier request succeeded; once a
\* request has failed no later request is sent and the tool returns an
\* error envelope, never a success envelope.
C28_OrderStopsAtFirstFailure ==
    /\ IsPrefix(order.sent, ClaimedOrder(order.items))
    /\ \A i \in 1..Len(order.sent) :
           RequestFailed(order.replies[i])
               => /\ i = Len(order.sent)
                  /\ order.pc = "done"
                  /\ order.keys = {"error"}

\* C29: low_stock_alert terminates for every sequence of page responses
\* with a list or an error envelope; it asks for a further page only after
\* a page that brought items, so a page without items ends the paging even
\* when the reported total_count is larger than what was collected.
C29_PagingStopsOnEmptyPage ==
    /\ (paging.pc = "page" /\ paging.current_page > 1) => paging.last.items > 0
    /\ paging.pc = "done" => paging.out \in {"list", "error"}


\* C30: a chat request with an empty session_id is answered with a 400
\* client error and the runtime is never invoked for it, on /chat and on
\* /chat/stream alike.
C30_EmptySessionIs400 ==
    (req.endpoint \in {"chat", "chat_stream"} /\ req.sid = "")
        => (req.status = 400 /\ ~req.invoked)

====
